---- MODULE Spec2Model ----
(***************************************************************************)
(* Invoice lifecycle of the DucksFinances backend: the Invoice model       *)
(* (app/models/invoice.py), InvoiceService (app/services/                  *)
(* invoice_service.py) and the invoice routes (app/routes/invoices.py).    *)
(*                                                                         *)
(* Money is counted in minor units (cents) and rates in percent.  The      *)
(* request bodies below are chosen so that every product                   *)
(* quantity * unit_price * (1 + tax_rate/100) and subtotal * tax_rate/100  *)
(* is a whole number of cents: the Numeric(12, 2) columns then store the   *)
(* computed values without rounding.  Decimal and float amounts are one    *)
(* numeric type, and a column that the constructor does not set reads as   *)
(* its column default.  An absent foreign key (NULL) is written 0.         *)
(***************************************************************************)
EXTENDS Integers, Sequences, FiniteSets, TLC

VARIABLES
    invoices,           \* table invoices: id -> row (items are the rows of invoice_items it owns)
    transactions,       \* table transactions: id -> row
    next_invoice_id,    \* autoincrement of invoices.id
    next_item_id,       \* autoincrement of invoice_items.id
    next_transaction_id,\* autoincrement of transactions.id
    today,              \* date.today(): [year, month]
    last,               \* the last call and what it answered: [op, code, message]
    calls,              \* the steps so far that changed the store or the calendar
    inflight            \* per worker: the request it has read the store for and not yet committed

vars == <<invoices, transactions, next_invoice_id, next_item_id, next_transaction_id, today, last, calls,
          inflight>>

store == <<invoices, transactions, next_invoice_id, next_item_id, next_transaction_id>>

(***************************************************************************)
(* The bound of the model: a run holds at most MaxCalls steps that change  *)
(* the store or the calendar (calls that are refused are not counted).     *)
(***************************************************************************)
MaxCalls == 3

Budget ==
    /\ calls' = IF store' = store /\ today' = today THEN calls ELSE calls + 1
    /\ calls' <= MaxCalls

Users == {1, 2}

(***************************************************************************)
(* The workers that serve requests side by side, each with a session of    *)
(* its own.  A request that is served in one step leaves them alone.       *)
(***************************************************************************)
MaxInFlight == 2

Workers == 1..MaxInFlight

Idle == [kind |-> "idle"]

StartDay == [year |-> 2026, month |-> 12]

None == "None"

(***************************************************************************)
(* InvoiceStatus, TransactionType                                          *)
(***************************************************************************)
DRAFT == "draft"
SENT == "sent"
VIEWED == "viewed"
PARTIALLY_PAID == "partially_paid"
PAID == "paid"
OVERDUE == "overdue"
VOID == "void"
UNCOLLECTIBLE == "uncollectible"

InvoiceStatus == {DRAFT, SENT, VIEWED, PARTIALLY_PAID, PAID, OVERDUE, VOID, UNCOLLECTIBLE}

INCOME == "income"
EXPENSE == "expense"
TRANSFER == "transfer"

TransactionType == {INCOME, EXPENSE, TRANSFER}

TransactionCategory ==
    {"service", "product_sale", "interest", "refund", "other_income",
     "office_supplies", "rent", "utilities", "salary", "contractor", "software",
     "hardware", "travel", "meals", "marketing", "professional_services",
     "insurance", "taxes", "other_expense"}

(***************************************************************************)
(* Strings are sequences of one-character strings, so that formatting and  *)
(* matching an invoice number are computed character by character.         *)
(***************************************************************************)
DigitChars == <<"0", "1", "2", "3", "4", "5", "6", "7", "8", "9">>

IsDigit(c) == \E k \in 1..10 : DigitChars[k] = c

DigitValue(c) == (CHOOSE k \in 1..10 : DigitChars[k] = c) - 1

\* str(n) for n >= 0
RECURSIVE Digits(_)
Digits(n) == IF n < 10 THEN <<DigitChars[n + 1]>>
             ELSE Digits(n \div 10) \o <<DigitChars[(n % 10) + 1]>>

\* f"{n:0{width}d}": zero-padded to at least width characters
RECURSIVE ZeroPad(_, _)
ZeroPad(n, width) == LET s == Digits(n)
                     IN IF Len(s) >= width THEN s
                        ELSE <<"0">> \o ZeroPad(n, width - 1)

\* int(s) for a non-empty sequence of digits
RECURSIVE ParseInt(_)
ParseInt(s) == IF Len(s) = 0 THEN 0
               ELSE 10 * ParseInt(SubSeq(s, 1, Len(s) - 1)) + DigitValue(s[Len(s)])

\* the longest run of digits of s that starts at position i (the greedy \d+)
RECURSIVE DigitRun(_, _)
DigitRun(s, i) == IF i <= Len(s) /\ IsDigit(s[i]) THEN <<s[i]>> \o DigitRun(s, i + 1)
                  ELSE <<>>

\* f"INV-{current_year}{current_month:02d}-{sequence:04d}"
FormatInvoiceNumber(year, month, sequence) ==
    <<"I", "N", "V", "-">> \o Digits(year) \o ZeroPad(month, 2) \o <<"-">> \o ZeroPad(sequence, 4)

\* re.match(r'INV-(\d{4})(\d{2})-(\d+)', number): anchored at the start only
MatchInvoiceNumber(number) ==
    IF /\ Len(number) >= 12
       /\ SubSeq(number, 1, 4) = <<"I", "N", "V", "-">>
       /\ \A k \in 5..10 : IsDigit(number[k])
       /\ number[11] = "-"
       /\ IsDigit(number[12])
    THEN [matched |-> TRUE,
          year |-> ParseInt(SubSeq(number, 5, 8)),
          month |-> ParseInt(SubSeq(number, 9, 10)),
          sequence |-> ParseInt(DigitRun(number, 12))]
    ELSE [matched |-> FALSE, year |-> 0, month |-> 0, sequence |-> 0]

InvoiceIds == DOMAIN invoices

InvoicesOf(user_id) == {i \in InvoiceIds : invoices[i].user_id = user_id}

Max(S) == CHOOSE x \in S : \A y \in S : y <= x

\* a generator that never starts a new sequence
NextSequenceNoReset(match) == match.sequence + 1

\* _generate_invoice_number lines 39-44: increment within the month, else start again
NextSequence(match) ==
    IF match.year = today.year /\ match.month = today.month
    THEN match.sequence + 1
    ELSE 1

\* InvoiceService._generate_invoice_number
GenerateInvoiceNumber(user_id) ==
    LET mine == InvoicesOf(user_id)
        sequence ==
            IF mine = {} THEN 1
            ELSE LET match == MatchInvoiceNumber(invoices[Max(mine)].invoice_number)
                 IN IF match.matched THEN NextSequence(match) ELSE 1
    IN FormatInvoiceNumber(today.year, today.month, sequence)

(***************************************************************************)
(* Request bodies are functions from the keys present to their values:     *)
(* 'k' in data is k \in DOMAIN data, data.get(k, d) is Get(data, k, d).    *)
(***************************************************************************)
Get(data, key, default) == IF key \in DOMAIN data THEN data[key] ELSE default

Answer(op, code, message) == [op |-> op, code |-> code, message |-> message]

\* an amount that leaves the tax of the item out
ItemAmountNoTax(quantity, unit_price, tax_rate) == quantity * unit_price

\* quantity * unit_price * (1 + tax_rate / 100), in cents
ItemAmount(quantity, unit_price, tax_rate) == (quantity * unit_price * (100 + tax_rate)) \div 100

\* sum(item.amount for item in items), items being the rows of the invoice
RECURSIVE SumAmounts(_)
SumAmounts(items) == IF items = {} THEN 0
                     ELSE LET item == CHOOSE x \in items : TRUE
                          IN item.amount + SumAmounts(items \ {item})

\* a status that a part payment does not change
PromotedStatusNoPartial(status, amount_paid, amount_due) == IF amount_due <= 0 THEN PAID ELSE status

\* Invoice.calculate_totals, lines 78-82: the status follows the payments
PromotedStatus(status, amount_paid, amount_due) ==
    IF amount_due <= 0 THEN PAID
    ELSE IF amount_paid > 0 THEN PARTIALLY_PAID
    ELSE status

\* totals whose amount_due is taken from the total of the call before
CalculateTotalsStaleDue(invoice) ==
    LET subtotal == SumAmounts(invoice.items)
        tax_amount == (subtotal * invoice.tax_rate) \div 100
        amount_due == invoice.total - invoice.amount_paid
    IN [invoice EXCEPT !.subtotal = subtotal,
                       !.tax_amount = tax_amount,
                       !.total = subtotal + tax_amount,
                       !.amount_due = amount_due,
                       !.status = PromotedStatus(invoice.status, invoice.amount_paid, amount_due)]

\* Invoice.calculate_totals
CalculateTotals(invoice) ==
    LET subtotal == SumAmounts(invoice.items)
        tax_amount == (subtotal * invoice.tax_rate) \div 100
        total == subtotal + tax_amount
        amount_due == total - invoice.amount_paid
    IN [invoice EXCEPT !.subtotal = subtotal,
                       !.tax_amount = tax_amount,
                       !.total = total,
                       !.amount_due = amount_due,
                       !.status = PromotedStatus(invoice.status, invoice.amount_paid, amount_due)]

ItemRequired == {"description", "quantity", "unit_price"}

\* InvoiceItem(...) with item.amount computed, as create_invoice and update_invoice build it
NewItem(item_data, id) ==
    LET tax_rate == Get(item_data, "tax_rate", 0)
    IN [id |-> id,
        description |-> item_data.description,
        quantity |-> item_data.quantity,
        unit_price |-> item_data.unit_price,
        tax_rate |-> tax_rate,
        amount |-> ItemAmount(item_data.quantity, item_data.unit_price, tax_rate)]

\* a table without the unique constraint
NumberTakenNever(number) == FALSE

\* the unique constraint on invoices.invoice_number
NumberTaken(number) == \E i \in InvoiceIds : invoices[i].invoice_number = number

CreateRequired == {"client_id", "issue_date", "due_date", "items"}

\* the Invoice that create_invoice builds, before it is committed
NewInvoice(user_id, data, id) ==
    CalculateTotals(
        [id |-> id,
         invoice_number |-> GenerateInvoiceNumber(user_id),
         issue_date |-> data.issue_date,
         due_date |-> data.due_date,
         status |-> DRAFT,
         notes |-> Get(data, "notes", None),
         terms |-> Get(data, "terms", None),
         tax_rate |-> Get(data, "tax_rate", 0),
         subtotal |-> 0,
         tax_amount |-> 0,
         total |-> 0,
         amount_paid |-> 0,
         amount_due |-> 0,
         currency |-> Get(data, "currency", "USD"),
         created_at |-> today,
         user_id |-> user_id,
         client_id |-> data.client_id,
         project_id |-> Get(data, "project_id", 0),
         items |-> {NewItem(data.items[k], next_item_id + k - 1) : k \in 1..Len(data.items)}])

\* a validation that forgets to compare the two dates
CreateErrorNoDates(data) ==
    IF ~(CreateRequired \subseteq DOMAIN data)
    THEN "Missing required field"
    ELSE IF Len(data.items) = 0
    THEN "At least one invoice item is required"
    ELSE IF \E k \in 1..Len(data.items) : ~(ItemRequired \subseteq DOMAIN data.items[k])
    THEN "Invalid data: Each item must have description, quantity, and unit_price"
    ELSE None

\* create_invoice lines 80-94 and 113-114: the message of the ValueError, or None
CreateError(data) ==
    IF ~(CreateRequired \subseteq DOMAIN data)
    THEN "Missing required field"
    ELSE IF Len(data.items) = 0
    THEN "At least one invoice item is required"
    ELSE IF data.due_date < data.issue_date
    THEN "Invalid data: Due date cannot be before issue date"
    ELSE IF \E k \in 1..Len(data.items) : ~(ItemRequired \subseteq DOMAIN data.items[k])
    THEN "Invalid data: Each item must have description, quantity, and unit_price"
    ELSE None

\* POST /api/invoices: the route and InvoiceService.create_invoice
CreateInvoice(user_id, data) ==
    /\ UNCHANGED <<transactions, next_transaction_id, today, inflight>>
    /\ IF CreateError(data) # None
       THEN /\ last' = Answer("create_invoice", "400", CreateError(data))
            /\ UNCHANGED <<invoices, next_invoice_id, next_item_id>>
       ELSE LET invoice == NewInvoice(user_id, data, next_invoice_id)
            IN IF NumberTaken(invoice.invoice_number)
               THEN /\ last' = Answer("create_invoice", "500", "Failed to create invoice")
                    /\ UNCHANGED <<invoices, next_invoice_id, next_item_id>>
               ELSE /\ invoices' = invoices @@ (invoice.id :> invoice)
                    /\ next_invoice_id' = next_invoice_id + 1
                    /\ next_item_id' = next_item_id + Len(data.items)
                    /\ last' = Answer("create_invoice", "201", "Invoice created successfully")
    /\ Budget

\* Invoice.query.filter_by(id=invoice_id, user_id=current_user_id).first()
Owned(user_id, invoice_id) == invoice_id \in InvoiceIds /\ invoices[invoice_id].user_id = user_id

\* update_invoice lines 202-231: the items of the request against the rows of the invoice
RECURSIVE ReconcileItems(_, _, _)
ReconcileItems(items_data, existing_ids, next_id) ==
    IF Len(items_data) = 0 THEN {}
    ELSE LET item_data == Head(items_data)
         IN IF "id" \in DOMAIN item_data /\ item_data.id # 0 /\ item_data.id \in existing_ids
            THEN {NewItem(item_data, item_data.id)}
                 \cup ReconcileItems(Tail(items_data), existing_ids \ {item_data.id}, next_id)
            ELSE {NewItem(item_data, next_id)}
                 \cup ReconcileItems(Tail(items_data), existing_ids, next_id + 1)

\* an update of the items that deletes no row
WithUpdatesKeepingItems(invoice, data) ==
    IF "items" \in DOMAIN data
    THEN LET reconciled == ReconcileItems(data.items, {x.id : x \in invoice.items}, next_item_id)
         IN [invoice EXCEPT !.items =
                reconciled \cup {x \in invoice.items : x.id \notin {y.id : y \in reconciled}}]
    ELSE invoice

\* the fields update_invoice sets before it recalculates (lines 175-238)
WithUpdates(invoice, data) ==
    LET dated == [invoice EXCEPT
                    !.issue_date = Get(data, "issue_date", invoice.issue_date),
                    !.due_date = Get(data, "due_date", invoice.due_date),
                    !.status = Get(data, "status", invoice.status),
                    !.client_id = Get(data, "client_id", invoice.client_id),
                    !.project_id = Get(data, "project_id", invoice.project_id),
                    !.currency = Get(data, "currency", invoice.currency),
                    !.tax_rate = Get(data, "tax_rate", invoice.tax_rate),
                    !.notes = Get(data, "notes", invoice.notes),
                    !.terms = Get(data, "terms", invoice.terms)]
    IN IF "items" \in DOMAIN data
       THEN [dated EXCEPT !.items = ReconcileItems(data.items, {x.id : x \in invoice.items}, next_item_id)]
       ELSE dated

\* an update that commits without recalculating
NotRecalculated(invoice) == invoice

\* InvoiceService.update_invoice, line 241: the totals are recalculated before the commit
Recalculated(invoice) == CalculateTotals(invoice)

\* InvoiceService.update_invoice: the invoice it commits, or the ValueError it raises
UpdatedInvoice(invoice, data) ==
    IF "due_date" \in DOMAIN data /\ data.due_date < Get(data, "issue_date", invoice.issue_date)
    THEN [error |-> "Invalid data: Due date cannot be before issue date"]
    ELSE IF "status" \in DOMAIN data /\ data.status \notin InvoiceStatus
    THEN [error |-> "Invalid data: not a valid InvoiceStatus"]
    ELSE IF "items" \in DOMAIN data
            /\ \E k \in 1..Len(data.items) : ~(ItemRequired \subseteq DOMAIN data.items[k])
    THEN [error |-> "Invalid data: Each item must have description, quantity, and unit_price"]
    ELSE [error |-> None, invoice |-> Recalculated(WithUpdates(invoice, data))]

AllowedUpdates == {"status", "notes", "terms"}

\* a lock that forgets the partially paid invoices
LockedWhenPaid(invoice, data) ==
    /\ invoice.status = PAID
    /\ \E field \in DOMAIN data : field \notin AllowedUpdates

\* routes/invoices.py lines 146-153: the edit lock of a paid or partially paid invoice
Locked(invoice, data) ==
    /\ invoice.status \in {PAID, PARTIALLY_PAID}
    /\ \E field \in DOMAIN data : field \notin AllowedUpdates

\* PUT /api/invoices/<id>: the route and InvoiceService.update_invoice
UpdateInvoice(user_id, invoice_id, data) ==
    /\ UNCHANGED <<transactions, next_transaction_id, next_invoice_id, today, inflight>>
    /\ IF ~Owned(user_id, invoice_id)
       THEN /\ last' = Answer("update_invoice", "404", "Invoice not found")
            /\ UNCHANGED <<invoices, next_item_id>>
       ELSE IF Locked(invoices[invoice_id], data)
       THEN /\ last' = Answer("update_invoice", "400", "Cannot update paid/partially paid invoice details")
            /\ UNCHANGED <<invoices, next_item_id>>
       ELSE LET updated == UpdatedInvoice(invoices[invoice_id], data)
            IN IF updated.error # None
               THEN /\ last' = Answer("update_invoice", "400", updated.error)
                    /\ UNCHANGED <<invoices, next_item_id>>
               ELSE LET created == {x.id : x \in updated.invoice.items} \ {x.id : x \in invoices[invoice_id].items}
                    IN /\ invoices' = [invoices EXCEPT ![invoice_id] = updated.invoice]
                       /\ next_item_id' = next_item_id + Cardinality(created)
                       /\ last' = Answer("update_invoice", "200", "Invoice updated successfully")
    /\ Budget

\* the rows of invoice_items, each with the invoice that owns it
ItemRows == UNION {{[invoice_id |-> i, item |-> x] : x \in invoices[i].items} : i \in InvoiceIds}

\* a route that lets every invoice be deleted
DeleteBlockedNever(invoice) == FALSE

\* routes/invoices.py lines 187-189: a paid invoice is not deleted
DeleteBlocked(invoice) == invoice.status = PAID

\* DELETE /api/invoices/<id>: the items go with the invoice (cascade of Invoice.items),
\* the transactions of the invoice stay and lose their invoice_id (Invoice.transactions
\* has no delete cascade)
DeleteInvoice(user_id, invoice_id) ==
    /\ UNCHANGED <<next_invoice_id, next_item_id, next_transaction_id, today, inflight>>
    /\ IF ~Owned(user_id, invoice_id)
       THEN /\ last' = Answer("delete_invoice", "404", "Invoice not found")
            /\ UNCHANGED <<invoices, transactions>>
       ELSE IF DeleteBlocked(invoices[invoice_id])
       THEN /\ last' = Answer("delete_invoice", "400", "Cannot delete a paid invoice")
            /\ UNCHANGED <<invoices, transactions>>
       ELSE /\ invoices' = [i \in InvoiceIds \ {invoice_id} |-> invoices[i]]
            /\ transactions' = [t \in DOMAIN transactions |->
                    IF transactions[t].invoice_id = invoice_id
                    THEN [transactions[t] EXCEPT !.invoice_id = 0]
                    ELSE transactions[t]]
            /\ last' = Answer("delete_invoice", "200", "Invoice deleted successfully")
    /\ Budget

\* a payment transaction that loses the project of the invoice
PaymentTransactionNoProject(invoice, amount, user_id) ==
    [id |-> next_transaction_id,
     amount |-> amount,
     type |-> INCOME,
     category |-> "service",
     invoice_id |-> invoice.id,
     project_id |-> 0,
     user_id |-> user_id]

\* Transaction(...) of a recorded payment
PaymentTransaction(invoice, amount, user_id) ==
    [id |-> next_transaction_id,
     amount |-> amount,
     type |-> INCOME,
     category |-> "service",
     invoice_id |-> invoice.id,
     project_id |-> invoice.project_id,
     user_id |-> user_id]

\* a payment that is taken off the amount paid
PaidReversed(invoice, amount) == CalculateTotals([invoice EXCEPT !.amount_paid = invoice.amount_paid - amount])

\* a payment added without recalculating
PaidStale(invoice, amount) == [invoice EXCEPT !.amount_paid = invoice.amount_paid + amount]

\* invoice.amount_paid += amount; invoice.calculate_totals()
Paid(invoice, amount) == CalculateTotals([invoice EXCEPT !.amount_paid = invoice.amount_paid + amount])

\* the commit of a recorded payment: the invoice row and the new transaction
CommitPayment(invoice, amount, user_id) ==
    /\ invoices' = [invoices EXCEPT ![invoice.id] = Paid(invoice, amount)]
    /\ transactions' = transactions @@
            (next_transaction_id :> PaymentTransaction(invoice, amount, user_id))
    /\ next_transaction_id' = next_transaction_id + 1

\* a check that forgets the sign of the amount
PaymentErrorNoSign(invoice, amount) ==
    IF amount > invoice.amount_due THEN "Payment amount cannot be greater than the amount due"
    ELSE None

\* InvoiceService.record_payment lines 272-276: the ValueError it raises, or None
PaymentError(invoice, amount) ==
    IF amount <= 0 THEN "Payment amount must be greater than 0"
    ELSE IF amount > invoice.amount_due THEN "Payment amount cannot be greater than the amount due"
    ELSE None

\* InvoiceService.record_payment(invoice, amount, payment_date)
ServiceRecordPayment(invoice_id, amount) ==
    /\ invoice_id \in InvoiceIds
    /\ UNCHANGED <<next_invoice_id, next_item_id, today, inflight>>
    /\ LET invoice == invoices[invoice_id]
       IN IF PaymentError(invoice, amount) # None
          THEN /\ last' = Answer("service_record_payment", "ValueError", PaymentError(invoice, amount))
               /\ UNCHANGED <<invoices, transactions, next_transaction_id>>
          ELSE /\ CommitPayment(invoice, amount, invoice.user_id)
               /\ last' = Answer("service_record_payment", "return", "")
    /\ Budget

\* routes/invoices.py lines 239-264 and 288: the answer of the request (200 when no check ends it)
RoutePaymentAnswer(user_id, invoice_id, data) ==
    IF ~({"amount", "payment_date"} \subseteq DOMAIN data)
    THEN Answer("record_payment", "400", "Amount and payment_date are required")
    ELSE IF data.amount <= 0
    THEN Answer("record_payment", "400", "Amount must be greater than 0")
    ELSE IF ~Owned(user_id, invoice_id)
    THEN Answer("record_payment", "404", "Invoice not found")
    ELSE IF invoices[invoice_id].status = VOID
    THEN Answer("record_payment", "400", "Cannot record payment for a void invoice")
    ELSE Answer("record_payment", "200", "Payment recorded successfully")

\* POST /api/invoices/<id>/record-payment
RecordPayment(user_id, invoice_id, data) ==
    /\ UNCHANGED <<next_invoice_id, next_item_id, today, inflight>>
    /\ LET answer == RoutePaymentAnswer(user_id, invoice_id, data)
       IN /\ last' = answer
          /\ IF answer.code # "200"
             THEN UNCHANGED <<invoices, transactions, next_transaction_id>>
             ELSE CommitPayment(invoices[invoice_id], data.amount, user_id)
    /\ Budget

\* POST /api/invoices/<id>/send
SendInvoice(user_id, invoice_id) ==
    /\ UNCHANGED <<transactions, next_invoice_id, next_item_id, next_transaction_id, today, inflight>>
    /\ IF ~Owned(user_id, invoice_id)
       THEN /\ last' = Answer("send_invoice", "404", "Invoice not found")
            /\ UNCHANGED invoices
       ELSE /\ invoices' = [invoices EXCEPT ![invoice_id].status = SENT]
            /\ last' = Answer("send_invoice", "200", "Invoice sent successfully")
    /\ Budget

\* InvoiceService.send_invoice(invoice, send_email): client_email is invoice.client.email or None
ServiceSendInvoice(invoice_id, send_email, client_email) ==
    /\ invoice_id \in InvoiceIds
    /\ UNCHANGED <<transactions, next_invoice_id, next_item_id, next_transaction_id, today, inflight>>
    /\ invoices' = IF invoices[invoice_id].status = DRAFT
                   THEN [invoices EXCEPT ![invoice_id].status = SENT]
                   ELSE invoices
    /\ last' = IF send_email /\ client_email = None
               THEN Answer("service_send_invoice", "Exception", "Failed to send invoice: Client email not found")
               ELSE Answer("service_send_invoice", "return", "")
    /\ Budget

\* Transaction.query.filter_by(id=transaction_id, user_id=current_user_id).first()
OwnedTransaction(user_id, transaction_id) ==
    transaction_id \in DOMAIN transactions /\ transactions[transaction_id].user_id = user_id

TransactionRequired == {"date", "amount", "type", "category"}

\* TransactionService: TransactionType(data['type']) and TransactionCategory(data['category'])
\* raise ValueError for a value outside the enumeration
TransactionError(data) ==
    IF "type" \in DOMAIN data /\ data.type \notin TransactionType
    THEN "Invalid data: not a valid TransactionType"
    ELSE IF "category" \in DOMAIN data /\ data.category \notin TransactionCategory
    THEN "Invalid data: not a valid TransactionCategory"
    ELSE None

\* POST /api/transactions: the route and TransactionService.create_transaction
CreateTransaction(user_id, data) ==
    /\ UNCHANGED <<invoices, next_invoice_id, next_item_id, today, inflight>>
    /\ IF ~(TransactionRequired \subseteq DOMAIN data)
       THEN /\ last' = Answer("create_transaction", "400", "Missing required field")
            /\ UNCHANGED <<transactions, next_transaction_id>>
       ELSE IF TransactionError(data) # None
       THEN /\ last' = Answer("create_transaction", "400", TransactionError(data))
            /\ UNCHANGED <<transactions, next_transaction_id>>
       ELSE /\ transactions' = transactions @@
                    (next_transaction_id :>
                        [id |-> next_transaction_id,
                         date |-> data.date,
                         amount |-> data.amount,
                         type |-> data.type,
                         category |-> data.category,
                         invoice_id |-> Get(data, "invoice_id", 0),
                         project_id |-> Get(data, "project_id", 0),
                         user_id |-> user_id])
            /\ next_transaction_id' = next_transaction_id + 1
            /\ last' = Answer("create_transaction", "201", "Transaction created successfully")
    /\ Budget

\* TransactionService.update_transaction: the fields of the request replace those of the row
UpdatedTransaction(transaction, data) ==
    [field \in DOMAIN transaction |->
        IF field \in DOMAIN data /\ field \notin {"id", "user_id"}
        THEN data[field]
        ELSE transaction[field]]

\* PUT /api/transactions/<id>
UpdateTransaction(user_id, transaction_id, data) ==
    /\ UNCHANGED <<invoices, next_invoice_id, next_item_id, next_transaction_id, today, inflight>>
    /\ IF ~OwnedTransaction(user_id, transaction_id)
       THEN /\ last' = Answer("update_transaction", "404", "Transaction not found")
            /\ UNCHANGED transactions
       ELSE IF TransactionError(data) # None
       THEN /\ last' = Answer("update_transaction", "400", TransactionError(data))
            /\ UNCHANGED transactions
       ELSE /\ transactions' = [transactions EXCEPT
                    ![transaction_id] = UpdatedTransaction(transactions[transaction_id], data)]
            /\ last' = Answer("update_transaction", "200", "Transaction updated successfully")
    /\ Budget

\* DELETE /api/transactions/<id>
DeleteTransaction(user_id, transaction_id) ==
    /\ UNCHANGED <<invoices, next_invoice_id, next_item_id, next_transaction_id, today, inflight>>
    /\ IF ~OwnedTransaction(user_id, transaction_id)
       THEN /\ last' = Answer("delete_transaction", "404", "Transaction not found")
            /\ UNCHANGED transactions
       ELSE /\ transactions' = [t \in DOMAIN transactions \ {transaction_id} |-> transactions[t]]
            /\ last' = Answer("delete_transaction", "200", "Transaction deleted successfully")
    /\ Budget

\* the calendar moves on to the next month
NextMonth ==
    /\ today' = IF today.month = 12 THEN [year |-> today.year + 1, month |-> 1]
                ELSE [today EXCEPT !.month = today.month + 1]
    /\ UNCHANGED <<store, last, inflight>>
    /\ Budget

(***************************************************************************)
(* The request bodies the model sends.                                     *)
(***************************************************************************)
ItemA == [description |-> "a", quantity |-> 1, unit_price |-> 5000]
ItemB == [description |-> "b", quantity |-> 2, unit_price |-> 10000, tax_rate |-> 10]
ItemZ == [description |-> "z", quantity |-> 0, unit_price |-> 10000]

\* an item that names the row with id 1
ItemC == [id |-> 1, description |-> "c", quantity |-> 3, unit_price |-> 5000]

CreateBase == [client_id |-> 1, issue_date |-> 1, due_date |-> 2]

\* an item without its unit_price
ItemNoPrice == [description |-> "d", quantity |-> 1]

CreateRequests ==
    {CreateBase @@ [items |-> <<ItemB, ItemA>>, tax_rate |-> 10, project_id |-> 1],
     CreateBase @@ [items |-> <<ItemZ>>],
     CreateBase @@ [items |-> <<>>],
     CreateBase @@ [items |-> <<ItemA, ItemNoPrice>>],
     [client_id |-> 1, issue_date |-> 2, due_date |-> 1, items |-> <<ItemA>>]}

UpdateRequests ==
    {[notes |-> "n"],
     [tax_rate |-> 0],
     [items |-> <<ItemA>>],
     [items |-> <<ItemC, ItemA>>],
     [status |-> VOID],
     [status |-> "bogus"]}

Amounts == {-5000, 0, 27000}

PaymentRequests == {[amount |-> a, payment_date |-> 1] : a \in Amounts}

\* the bodies of POST and PUT /api/transactions
TransactionRequests ==
    {[date |-> [year |-> 2026, month |-> 12, day |-> 1], amount |-> 4000,
      type |-> EXPENSE, category |-> "rent", invoice_id |-> 1],
     [date |-> [year |-> 2026, month |-> 12, day |-> 1], amount |-> 4000,
      type |-> "bogus", category |-> "rent"]}

TransactionUpdates == {[type |-> TRANSFER], [category |-> "bogus"]}

\* the transaction ids a request names: the stored ones and one that is not stored
TransactionKeys == DOMAIN transactions \cup {next_transaction_id}

\* the invoice ids a request names: the stored ones and one that is not stored
InvoiceKeys == InvoiceIds \cup {next_invoice_id}

\* the bodies sent for an invoice: all of them to its owner, one to anybody else
BodiesFor(user_id, invoice_id, bodies) ==
    IF Owned(user_id, invoice_id) THEN bodies ELSE {CHOOSE data \in bodies : TRUE}

Init ==
    /\ invoices = <<>>
    /\ transactions = <<>>
    /\ next_invoice_id = 1
    /\ next_item_id = 1
    /\ next_transaction_id = 1
    /\ today = StartDay
    /\ last = Answer("none", "", "")
    /\ calls = 0
    /\ inflight = [worker \in Workers |-> Idle]

Next ==
    \/ \E user_id \in Users, data \in CreateRequests : CreateInvoice(user_id, data)
    \/ \E user_id \in Users, invoice_id \in InvoiceKeys :
            \E data \in BodiesFor(user_id, invoice_id, UpdateRequests) :
                UpdateInvoice(user_id, invoice_id, data)
    \/ \E user_id \in Users, invoice_id \in InvoiceKeys, data \in PaymentRequests :
            RecordPayment(user_id, invoice_id, data)
    \/ \E invoice_id \in InvoiceKeys, amount \in Amounts : ServiceRecordPayment(invoice_id, amount)
    \/ \E user_id \in Users, invoice_id \in InvoiceKeys : DeleteInvoice(user_id, invoice_id)
    \/ \E user_id \in Users, invoice_id \in InvoiceKeys : SendInvoice(user_id, invoice_id)
    \/ \E invoice_id \in InvoiceKeys, send_email \in BOOLEAN, client_email \in {None} :
            ServiceSendInvoice(invoice_id, send_email, client_email)
    \/ NextMonth

Spec == Init /\ [][Next]_vars

(***************************************************************************)
(* The invoice calls together with the transaction endpoints.              *)
(***************************************************************************)
LedgerNext ==
    \/ Next
    \/ \E user_id \in Users, data \in TransactionRequests : CreateTransaction(user_id, data)
    \/ \E user_id \in Users, transaction_id \in TransactionKeys, data \in TransactionUpdates :
            UpdateTransaction(user_id, transaction_id, data)
    \/ \E user_id \in Users, transaction_id \in TransactionKeys :
            DeleteTransaction(user_id, transaction_id)

LedgerSpec == Init /\ [][LedgerNext]_vars

(***************************************************************************)
(* Reports (app/routes/reports.py).  A date is [year, month, day]; a       *)
(* period key is the string that strftime('%Y-%m') and to_char(date,       *)
(* 'YYYY-MM') give.                                                        *)
(***************************************************************************)
IsLeapYear(year) == (year % 4 = 0 /\ year % 100 # 0) \/ year % 400 = 0

DaysInMonth(year, month) ==
    IF month = 2 THEN (IF IsLeapYear(year) THEN 29 ELSE 28)
    ELSE IF month \in {4, 6, 9, 11} THEN 30
    ELSE 31

\* a <= b for two dates
DateLE(a, b) ==
    \/ a.year < b.year
    \/ a.year = b.year /\ a.month < b.month
    \/ a.year = b.year /\ a.month = b.month /\ a.day <= b.day

\* date - timedelta(days=days)
RECURSIVE MinusDays(_, _)
MinusDays(date, days) ==
    IF days < date.day THEN [date EXCEPT !.day = date.day - days]
    ELSE LET year == IF date.month = 1 THEN date.year - 1 ELSE date.year
             month == IF date.month = 1 THEN 12 ELSE date.month - 1
         IN MinusDays([year |-> year, month |-> month, day |-> DaysInMonth(year, month)],
                      days - date.day)

\* cash_flow_report lines 199-203: the first day of the next month
FirstOfNextMonth(date) ==
    IF date.month = 12 THEN [year |-> date.year + 1, month |-> 1, day |-> 1]
    ELSE [year |-> date.year, month |-> date.month + 1, day |-> 1]

\* date.strftime('%Y-%m')
FormatPeriod(date) == Digits(date.year) \o <<"-">> \o ZeroPad(date.month, 2)

\* cash_flow_report lines 195-203: the periods from current while current <= end_date
RECURSIVE PeriodsFrom(_, _)
PeriodsFrom(current, end_date) ==
    IF DateLE(current, end_date)
    THEN <<FormatPeriod(current)>> \o PeriodsFrom(FirstOfNextMonth(current), end_date)
    ELSE <<>>

\* cash_flow_report line 192: (end_date - timedelta(days=30*months)).replace(day=1)
StartDate(end_date, months) == [MinusDays(end_date, 30 * months) EXCEPT !.day = 1]

\* the rows of the query: Transaction.user_id == current_user_id and date between
RowsBetween(user_id, start_date, end_date) ==
    {transactions[t] : t \in {x \in DOMAIN transactions :
        /\ transactions[x].user_id = user_id
        /\ DateLE(start_date, transactions[x].date)
        /\ DateLE(transactions[x].date, end_date)}}

\* func.sum(Transaction.amount) over the rows of a group
TotalAmount(rows) == SumAmounts(rows)

\* cash_flow_report lines 229-238 for one period: income and expense are assigned from
\* the groups of the month; every group that is not income is written to expense, so of
\* an expense group and a transfer group the one that the query returns later stays
CashFlowPeriod(rows, period, later) ==
    LET of_type(type) == {r \in rows : FormatPeriod(r.date) = period /\ r.type = type}
        income == TotalAmount(of_type(INCOME))
        expense == IF of_type(EXPENSE) = {} THEN TotalAmount(of_type(TRANSFER))
                   ELSE IF of_type(TRANSFER) = {} THEN TotalAmount(of_type(EXPENSE))
                   ELSE TotalAmount(of_type(later))
    IN [period |-> period, income |-> income, expense |-> expense, net |-> income - expense]

\* sum(period[field] for period in cash_flow)
RECURSIVE SumField(_, _)
SumField(seq, field) == IF Len(seq) = 0 THEN 0
                        ELSE Head(seq)[field] + SumField(Tail(seq), field)

\* a balance that does not carry over
RunningBalanceOfPeriod(cash_flow, k) == cash_flow[k].net

\* cash_flow_report lines 243-246: running_balance after the k-th period
RECURSIVE RunningBalance(_, _)
RunningBalance(cash_flow, k) ==
    IF k = 0 THEN 0 ELSE RunningBalance(cash_flow, k - 1) + cash_flow[k].net

\* the JSON that cash_flow_report answers with status 200
CashFlowBody(user_id, end_date, months, later) ==
    LET start_date == StartDate(end_date, months)
        periods == PeriodsFrom(start_date, end_date)
        rows == RowsBetween(user_id, start_date, end_date)
        cash_flow == [k \in 1..Len(periods) |-> CashFlowPeriod(rows, periods[k], later)]
    IN [start_date |-> start_date,
        end_date |-> end_date,
        data |-> [k \in 1..Len(periods) |->
                    cash_flow[k] @@ [running_balance |-> RunningBalance(cash_flow, k)]],
        totals |-> [total_income |-> SumField(cash_flow, "income"),
                    total_expense |-> SumField(cash_flow, "expense"),
                    net_cash_flow |-> SumField(cash_flow, "net"),
                    ending_balance |-> RunningBalance(cash_flow, Len(cash_flow))]]

\* what a report answers: [op, code, message, body]
ReportAnswer(op, code, message, body) ==
    [op |-> op, code |-> code, message |-> message, body |-> body]

\* GET /api/reports/cash-flow?end_date=..&months=..; later is the type (expense or
\* transfer) whose group the query returns last within a month
CashFlowReport(user_id, end_date, months, later) ==
    /\ UNCHANGED <<store, today, calls, inflight>>
    /\ last' = IF months <= 0
               THEN ReportAnswer("cash_flow_report", "400", "Months must be greater than 0", None)
               ELSE ReportAnswer("cash_flow_report", "200", "",
                                 CashFlowBody(user_id, end_date, months, later))

\* the order of two characters of a period key
CharCode(c) == IF c = "-" THEN 45 ELSE 48 + DigitValue(c)

\* s < t for two strings, as sorted() compares them
RECURSIVE StrLess(_, _)
StrLess(s, t) ==
    IF Len(t) = 0 THEN FALSE
    ELSE IF Len(s) = 0 THEN TRUE
    ELSE IF Head(s) # Head(t) THEN CharCode(Head(s)) < CharCode(Head(t))
    ELSE StrLess(Tail(s), Tail(t))

\* sorted(keys)
RECURSIVE SortedKeys(_)
SortedKeys(keys) ==
    IF keys = {} THEN <<>>
    ELSE LET least == CHOOSE k \in keys : \A other \in keys \ {k} : StrLess(k, other)
         IN <<least>> \o SortedKeys(keys \ {least})

\* income_expense_report lines 70-79 for one period: the amount of a group goes to
\* income when its type is income and to expense otherwise
IncomeExpensePeriod(rows, period) ==
    LET of_period == {r \in rows : FormatPeriod(r.date) = period}
        income == TotalAmount({r \in of_period : r.type = INCOME})
        expense == TotalAmount({r \in of_period : r.type # INCOME})
    IN [period |-> period, income |-> income, expense |-> expense, net |-> income - expense]

\* the JSON that income_expense_report answers with status 200 (group_by = month)
IncomeExpenseBody(user_id, start_date, end_date) ==
    LET rows == RowsBetween(user_id, start_date, end_date)
        periods == SortedKeys({FormatPeriod(r.date) : r \in rows})
        report_data == [k \in 1..Len(periods) |-> IncomeExpensePeriod(rows, periods[k])]
        total_income == SumField(report_data, "income")
        total_expense == SumField(report_data, "expense")
    IN [data |-> report_data,
        totals |-> [total_income |-> total_income,
                    total_expense |-> total_expense,
                    net_income |-> total_income - total_expense],
        start_date |-> start_date,
        end_date |-> end_date]

\* GET /api/reports/income-expense?start_date=..&end_date=..&group_by=..
IncomeExpenseReport(user_id, start_date, end_date, group_by) ==
    /\ UNCHANGED <<store, today, calls, inflight>>
    /\ last' = IF group_by \notin {"day", "week", "month", "year"}
               THEN ReportAnswer("income_expense_report", "400", "Invalid group_by parameter", None)
               ELSE ReportAnswer("income_expense_report", "200", "",
                                 IncomeExpenseBody(user_id, start_date, end_date))

\* the keys of tax_categories['income'] and tax_categories['expenses'] besides 'total'
IncomeBuckets == {"service", "product_sale", "other_income"}

ExpenseBuckets ==
    {"office_supplies", "rent", "utilities", "salary", "contractor", "software",
     "hardware", "travel", "meals", "marketing", "professional_services",
     "insurance", "taxes", "other_expense"}

\* tax_summary_report lines 323-326 and 329-332: the bucket a category is added to
Bucket(category, buckets, other) == IF category \in buckets THEN category ELSE other

\* the JSON tax_categories of tax_summary_report: a group goes to the income buckets
\* when its type is income and to the expense buckets otherwise
TaxCategories(user_id, fiscal_year) ==
    LET rows == RowsBetween(user_id,
                            [year |-> fiscal_year, month |-> 1, day |-> 1],
                            [year |-> fiscal_year, month |-> 12, day |-> 31])
        income == {r \in rows : r.type = INCOME}
        expenses == {r \in rows : r.type # INCOME}
        net_profit == TotalAmount(income) - TotalAmount(expenses)
    IN [income |-> [b \in IncomeBuckets |->
                        TotalAmount({r \in income : Bucket(r.category, IncomeBuckets, "other_income") = b})],
        income_total |-> TotalAmount(income),
        expenses |-> [b \in ExpenseBuckets |->
                        TotalAmount({r \in expenses : Bucket(r.category, ExpenseBuckets, "other_expense") = b})],
        expenses_total |-> TotalAmount(expenses),
        net_profit |-> net_profit,
        estimated_tax |-> (net_profit * 30) \div 100]

\* GET /api/reports/tax-summary?year=..
TaxSummaryReport(user_id, fiscal_year) ==
    /\ UNCHANGED <<store, today, calls, inflight>>
    /\ last' = ReportAnswer("tax_summary_report", "200", "", TaxCategories(user_id, fiscal_year))

(***************************************************************************)
(* The reports over the tables of transactions that the endpoints can      *)
(* leave behind: every subset of the rows of Pool.                         *)
(***************************************************************************)
PoolRow(id, user_id, year, month, day, amount, type, category) ==
    [id |-> id, date |-> [year |-> year, month |-> month, day |-> day], amount |-> amount,
     type |-> type, category |-> category, invoice_id |-> 0, project_id |-> 0, user_id |-> user_id]

Pool ==
    <<PoolRow(1, 1, 2026, 1, 15, 10000, INCOME, "service"),
      PoolRow(2, 1, 2026, 3, 10, 4000, EXPENSE, "rent"),
      PoolRow(3, 1, 2026, 3, 20, 2500, TRANSFER, "rent"),
      PoolRow(4, 1, 2026, 3, 5, 3000, INCOME, "interest"),
      PoolRow(5, 2, 2026, 3, 7, 7000, INCOME, "service"),
      PoolRow(6, 1, 2025, 12, 31, 1000, EXPENSE, "service")>>

\* the largest months parameter of a cash-flow request
MaxMonths == 2

EndDates == {[year |-> 2026, month |-> 3, day |-> 31], [year |-> 2026, month |-> 3, day |-> 15]}

ReportStart == [year |-> 2025, month |-> 12, day |-> 1]

FiscalYears == {2025, 2026}

ReportInit ==
    /\ invoices = <<>>
    /\ transactions \in {[t \in ids |-> Pool[t]] : ids \in SUBSET DOMAIN Pool}
    /\ next_invoice_id = 1
    /\ next_item_id = 1
    /\ next_transaction_id = Len(Pool) + 1
    /\ today = StartDay
    /\ last = Answer("none", "", "")
    /\ calls = 0
    /\ inflight = [worker \in Workers |-> Idle]

ReportNext ==
    \/ \E user_id \in Users, end_date \in EndDates, months \in 0..MaxMonths,
          later \in {EXPENSE, TRANSFER} :
            CashFlowReport(user_id, end_date, months, later)
    \/ \E user_id \in Users, end_date \in EndDates, group_by \in {"month", "quarter"} :
            IncomeExpenseReport(user_id, ReportStart, end_date, group_by)
    \/ \E user_id \in Users, fiscal_year \in FiscalYears : TaxSummaryReport(user_id, fiscal_year)

ReportSpec == ReportInit /\ [][ReportNext]_vars

(***************************************************************************)
(* calculate_totals on its own: the invoice objects a handler can hold     *)
(* when it calls calculate_totals (its items, tax_rate, amount_paid and    *)
(* status set, its totals not yet computed), and the call.                 *)
(***************************************************************************)
TotalsItems == {NewItem(ItemA, 1), NewItem(ItemB, 2), NewItem(ItemZ, 3)}

TotalsTaxRates == {0, 10}

TotalsAmountsPaid == {0, 5000, 27000, 40000}

\* invoice.calculate_totals() on the invoice a handler holds
CalculateTotalsCall(invoice_id) ==
    /\ invoice_id \in InvoiceIds
    /\ invoices' = [invoices EXCEPT ![invoice_id] = CalculateTotals(invoices[invoice_id])]
    /\ last' = Answer("calculate_totals", "return", "")
    /\ UNCHANGED <<transactions, next_invoice_id, next_item_id, next_transaction_id, today, calls, inflight>>

TotalsInit ==
    /\ \E items \in SUBSET TotalsItems, tax_rate \in TotalsTaxRates,
          amount_paid \in TotalsAmountsPaid, status \in InvoiceStatus :
            invoices = (1 :> [id |-> 1,
                              invoice_number |-> FormatInvoiceNumber(StartDay.year, StartDay.month, 1),
                              issue_date |-> 1,
                              due_date |-> 2,
                              status |-> status,
                              notes |-> None,
                              terms |-> None,
                              tax_rate |-> tax_rate,
                              subtotal |-> 0,
                              tax_amount |-> 0,
                              total |-> 0,
                              amount_paid |-> amount_paid,
                              amount_due |-> 0,
                              currency |-> "USD",
                              created_at |-> StartDay,
                              user_id |-> 1,
                              client_id |-> 1,
                              project_id |-> 0,
                              items |-> items])
    /\ transactions = <<>>
    /\ next_invoice_id = 2
    /\ next_item_id = Cardinality(TotalsItems) + 1
    /\ next_transaction_id = 1
    /\ today = StartDay
    /\ last = Answer("none", "", "")
    /\ calls = 0
    /\ inflight = [worker \in Workers |-> Idle]

TotalsNext == \E invoice_id \in InvoiceKeys : CalculateTotalsCall(invoice_id)

TotalsSpec == TotalsInit /\ [][TotalsNext]_vars

(***************************************************************************)
(* Properties                                                              *)
(***************************************************************************)
Succeeded(answer) == answer.code \in {"200", "201", "return"}

\* C1: every stored invoice has total = subtotal + tax_amount and
\* amount_due = total - amount_paid, after every call
C1_TotalsConsistent ==
    \A i \in InvoiceIds :
        /\ invoices[i].total = invoices[i].subtotal + invoices[i].tax_amount
        /\ invoices[i].amount_due = invoices[i].total - invoices[i].amount_paid

\* a payment has been recorded through the route on an invoice that carries tax
C1_Witness ==
    /\ last.op = "record_payment" /\ last.code = "200"
    /\ \E i \in InvoiceIds : invoices[i].amount_paid > 0 /\ invoices[i].tax_amount > 0

\* C2: every stored invoice has subtotal = the sum of the amounts of its current
\* items and tax_amount = subtotal * tax_rate / 100
C2_DerivedFromItems ==
    \A i \in InvoiceIds :
        /\ invoices[i].subtotal = SumAmounts(invoices[i].items)
        /\ invoices[i].tax_amount * 100 = invoices[i].subtotal * invoices[i].tax_rate

\* an update has replaced the items of an invoice that carries tax
C2_Witness ==
    /\ last.op = "update_invoice" /\ last.code = "200"
    /\ \E i \in InvoiceIds :
        /\ invoices[i].tax_rate = 10
        /\ invoices[i].subtotal = 5000
        /\ invoices[i].tax_amount = 500
        /\ invoices[i].total = 5500

\* a step of one of the two payment paths on the stored invoice i with amount a
PaymentStep(i, a) ==
    \/ /\ last'.op = "service_record_payment"
       /\ ServiceRecordPayment(i, a)
    \/ /\ last'.op = "record_payment"
       /\ \E user_id \in Users, data \in PaymentRequests :
            /\ data.amount = a
            /\ Owned(user_id, i)
            /\ RecordPayment(user_id, i, data)

\* the payment changed neither the invoices nor the transactions
PaymentRefused == ~Succeeded(last') /\ invoices' = invoices /\ transactions' = transactions

\* C3: on both payment paths a payment larger than the amount due of the invoice
\* is refused and changes neither the invoice nor the transactions
C3_OverpaymentRefused ==
    [][\A i \in InvoiceIds, a \in Amounts :
            PaymentStep(i, a) /\ a > invoices[i].amount_due => PaymentRefused]_vars

\* C4: a successful payment of a, 0 < a <= amount_due, adds a to amount_paid and adds
\* exactly one transaction (income, service, amount a, linked to the invoice, its
\* project and its owner), leaving every other transaction as it was
C4_PaymentRecorded ==
    [][\A i \in InvoiceIds, a \in Amounts :
            PaymentStep(i, a) /\ Succeeded(last') /\ 0 < a /\ a <= invoices[i].amount_due
            => /\ invoices'[i].amount_paid = invoices[i].amount_paid + a
               /\ \E t \in DOMAIN transactions' :
                    /\ t \notin DOMAIN transactions
                    /\ DOMAIN transactions' = DOMAIN transactions \cup {t}
                    /\ transactions'[t].type = INCOME
                    /\ transactions'[t].category = "service"
                    /\ transactions'[t].amount = a
                    /\ transactions'[t].invoice_id = i
                    /\ transactions'[t].project_id = invoices[i].project_id
                    /\ transactions'[t].user_id = invoices[i].user_id
               /\ \A t \in DOMAIN transactions : transactions'[t] = transactions[t]]_vars

\* a payment within the amount due has been recorded for an invoice of a project
C4_Witness ==
    /\ last.op \in {"record_payment", "service_record_payment"} /\ Succeeded(last)
    /\ \E t \in DOMAIN transactions :
        /\ transactions[t].project_id = 1
        /\ transactions[t].invoice_id \in InvoiceIds
        /\ invoices[transactions[t].invoice_id].amount_paid = transactions[t].amount

\* C5: the number create_invoice generates for any user differs from the number of
\* every stored invoice
C5_GeneratedNumberFree ==
    \A user_id \in Users : ~NumberTaken(GenerateInvoiceNumber(user_id))

\* a step that stores a new invoice of user_id
Created(user_id) ==
    /\ next_invoice_id \notin DOMAIN invoices
    /\ next_invoice_id \in DOMAIN invoices'
    /\ invoices'[next_invoice_id].user_id = user_id

\* C6: for one user, a create_invoice that follows an invoice of the same calendar
\* month with sequence n stores sequence n + 1; the first one of a later month, and
\* the first one of the user, store sequence 1
C6_SequencePerMonth ==
    [][\A user_id \in Users :
            Created(user_id)
            => LET number == invoices'[next_invoice_id].invoice_number
                   mine == InvoicesOf(user_id)
               IN IF mine # {} /\ invoices[Max(mine)].created_at = today
                  THEN \E n \in 1..MaxCalls :
                        /\ invoices[Max(mine)].invoice_number
                                = FormatInvoiceNumber(today.year, today.month, n)
                        /\ number = FormatInvoiceNumber(today.year, today.month, n + 1)
                  ELSE number = FormatInvoiceNumber(today.year, today.month, 1)]_vars

\* a user holds the second invoice of a month, and a first invoice of the next year
C6_Witness ==
    \E i \in InvoiceIds, j \in InvoiceIds :
        /\ invoices[i].user_id = invoices[j].user_id
        /\ invoices[i].invoice_number = FormatInvoiceNumber(2026, 12, 1)
        /\ invoices[j].invoice_number = FormatInvoiceNumber(2026, 12, 2)

\* C7: the invoice of a successful create_invoice has status DRAFT, amount_paid 0
\* and amount_due = total
C7_CreatedAsDraft ==
    last.op = "create_invoice" /\ last.code = "201"
    => LET invoice == invoices[next_invoice_id - 1]
       IN /\ invoice.status = DRAFT
          /\ invoice.amount_paid = 0
          /\ invoice.amount_due = invoice.total

\* C8: on a paid or partially paid invoice, an update that names a field other than
\* status, notes and terms is refused and changes nothing, and an update that names
\* only those fields (with a status of the enumeration) succeeds
C8_EditLock ==
    [][\A user_id \in Users, i \in InvoiceIds, data \in UpdateRequests :
            /\ last'.op = "update_invoice"
            /\ Owned(user_id, i)
            /\ UpdateInvoice(user_id, i, data)
            /\ invoices[i].status \in {PAID, PARTIALLY_PAID}
            => IF DOMAIN data \subseteq {"status", "notes", "terms"}
               THEN ("status" \in DOMAIN data => data.status \in InvoiceStatus)
                    => last'.code = "200"
               ELSE last'.code = "400" /\ invoices' = invoices]_vars

\* an update of the items of a partially paid invoice has been refused
C8_Witness ==
    /\ last.op = "update_invoice"
    /\ last.message = "Cannot update paid/partially paid invoice details"
    /\ \E i \in InvoiceIds : invoices[i].status = PARTIALLY_PAID

\* C9: on both payment paths a payment on a VOID or PAID invoice is refused and
\* changes neither the invoice nor the transactions
C9_NoPaymentOnVoidOrPaid ==
    [][\A i \in InvoiceIds, a \in Amounts :
            PaymentStep(i, a) /\ invoices[i].status \in {VOID, PAID} => PaymentRefused]_vars

\* C10: on both payment paths a payment with amount <= 0 is refused and changes
\* neither the invoice nor the transactions
C10_NonPositiveRefused ==
    [][\A i \in InvoiceIds, a \in Amounts :
            PaymentStep(i, a) /\ a <= 0 => PaymentRefused]_vars

\* the service has refused a payment of 0 or less on a stored invoice
C10_Witness ==
    /\ last.op = "service_record_payment"
    /\ last.message = "Payment amount must be greater than 0"
    /\ InvoiceIds # {}

\* C11: a create_invoice whose due_date is before its issue_date, whose items list
\* is empty, or one of whose items lacks description, quantity or unit_price fails;
\* a create_invoice that fails stores neither an invoice nor an item
C11_FailedCreateStoresNothing ==
    [][\A user_id \in Users, data \in CreateRequests :
            last'.op = "create_invoice" /\ CreateInvoice(user_id, data)
            => /\ (\/ data.due_date < data.issue_date
                   \/ Len(data.items) = 0
                   \/ \E k \in 1..Len(data.items) :
                        ~({"description", "quantity", "unit_price"} \subseteq DOMAIN data.items[k]))
                  => ~Succeeded(last')
               /\ ~Succeeded(last')
                  => /\ invoices' = invoices
                     /\ next_invoice_id' = next_invoice_id
                     /\ next_item_id' = next_item_id]_vars

\* a create_invoice has been refused for its second item, after an invoice was stored
C11_Witness ==
    /\ last.op = "create_invoice"
    /\ last.message = "Invalid data: Each item must have description, quantity, and unit_price"
    /\ InvoiceIds # {}

\* C12: after a successful update_invoice with an items list L the invoice has one
\* item per entry of L: an entry whose id is the id of an item of this invoice is
\* that item with the values of the entry, any other entry is an item with a fresh
\* id, and every former item whose id L does not name is gone; the other invoices
\* keep their items
C12_ItemsReplacedByDiff ==
    [][\A user_id \in Users, i \in InvoiceIds, data \in UpdateRequests :
            /\ last'.op = "update_invoice" /\ last'.code = "200"
            /\ "items" \in DOMAIN data
            /\ UpdateInvoice(user_id, i, data)
            => LET L == data.items
                   old == {x.id : x \in invoices[i].items}
                   new == invoices'[i].items
                   Names(k, id) == "id" \in DOMAIN L[k] /\ L[k].id = id
                   Same(x, k) == /\ x.description = L[k].description
                                 /\ x.quantity = L[k].quantity
                                 /\ x.unit_price = L[k].unit_price
               IN /\ Cardinality(new) = Len(L)
                  /\ \A k \in 1..Len(L) :
                        IF \E id \in old : Names(k, id)
                        THEN \E x \in new : x.id = L[k].id /\ Same(x, k)
                        ELSE \E x \in new : x.id \notin old /\ x.id >= next_item_id /\ Same(x, k)
                  /\ \A id \in old :
                        (\A k \in 1..Len(L) : ~Names(k, id)) => id \notin {x.id : x \in new}
                  /\ \A j \in InvoiceIds \ {i} : invoices'[j].items = invoices[j].items]_vars

\* an update has rewritten item 1 in place, deleted item 2 and created item 3
C12_Witness ==
    /\ last.op = "update_invoice" /\ last.code = "200"
    /\ \E i \in InvoiceIds :
        /\ {x.id : x \in invoices[i].items} = {1, 3}
        /\ \E x \in invoices[i].items : x.id = 1 /\ x.description = "c" /\ x.amount = 15000

\* C13: a delete request of the owner on a PAID invoice fails and leaves every invoice
\* and item stored; on an invoice of any other status it removes the invoice and
\* leaves no row of invoice_items that references it, the other invoices untouched
C13_DeleteUnlessPaid ==
    [][\A user_id \in Users, i \in InvoiceIds :
            /\ last'.op = "delete_invoice"
            /\ Owned(user_id, i)
            /\ DeleteInvoice(user_id, i)
            => IF invoices[i].status = PAID
               THEN ~Succeeded(last') /\ invoices' = invoices /\ ItemRows' = ItemRows
               ELSE /\ Succeeded(last')
                    /\ i \notin DOMAIN invoices'
                    /\ \A row \in ItemRows' : row.invoice_id # i
                    /\ \A j \in InvoiceIds \ {i} : invoices'[j] = invoices[j]]_vars

\* the delete of an invoice that payments have made PAID has been refused
C13_Witness ==
    /\ last.op = "delete_invoice"
    /\ last.message = "Cannot delete a paid invoice"
    /\ \E i \in InvoiceIds : invoices[i].status = PAID /\ invoices[i].amount_paid > 0

\* C14: no call (create_invoice, update_invoice, send, record_payment, accepted or
\* refused) lowers the amount_paid of an invoice that stays stored
C14_AmountPaidNeverDecreases ==
    [][\A i \in InvoiceIds \cap DOMAIN invoices' :
            invoices'[i].amount_paid >= invoices[i].amount_paid]_vars

\* the route has refused a payment of 0 or less on an invoice that holds a payment
C14_Witness ==
    /\ last.op = "record_payment"
    /\ last.message = "Amount must be greater than 0"
    /\ \E i \in InvoiceIds : invoices[i].amount_paid > 0

\* a request of user_id to one of the endpoints that name a stored record
EndpointStep(user_id) ==
    \/ /\ last'.op = "update_invoice"
       /\ \E i \in InvoiceKeys, data \in UpdateRequests : UpdateInvoice(user_id, i, data)
    \/ /\ last'.op = "delete_invoice"
       /\ \E i \in InvoiceKeys : DeleteInvoice(user_id, i)
    \/ /\ last'.op = "send_invoice"
       /\ \E i \in InvoiceKeys : SendInvoice(user_id, i)
    \/ /\ last'.op = "record_payment"
       /\ \E i \in InvoiceKeys, data \in PaymentRequests : RecordPayment(user_id, i, data)
    \/ /\ last'.op = "update_transaction"
       /\ \E t \in TransactionKeys, data \in TransactionUpdates : UpdateTransaction(user_id, t, data)
    \/ /\ last'.op = "delete_transaction"
       /\ \E t \in TransactionKeys : DeleteTransaction(user_id, t)

\* C15: a request of a user to an invoice or transaction endpoint leaves every
\* invoice and every transaction of the other users stored and as it was
C15_PerUserPartition ==
    [][\A user_id \in Users :
            EndpointStep(user_id)
            => /\ \A i \in InvoiceIds :
                    invoices[i].user_id # user_id
                    => i \in DOMAIN invoices' /\ invoices'[i] = invoices[i]
               /\ \A t \in DOMAIN transactions :
                    transactions[t].user_id # user_id
                    => t \in DOMAIN transactions' /\ transactions'[t] = transactions[t]]_vars

\* the first day of the calendar month that is months months before the month of date
FirstOfMonthBefore(date, months) ==
    LET n == date.year * 12 + (date.month - 1) - months
    IN [year |-> n \div 12, month |-> (n % 12) + 1, day |-> 1]

\* the transactions of user_id of one type in the calendar month of first
RowsOfMonth(user_id, first, type) ==
    {transactions[t] : t \in {x \in DOMAIN transactions :
        /\ transactions[x].user_id = user_id
        /\ transactions[x].type = type
        /\ transactions[x].date.year = first.year
        /\ transactions[x].date.month = first.month}}

\* C16: for months = m > 0 the cash-flow report starts on the first day of the month
\* that is m months before the month of the end date and has one entry for each of
\* the m + 1 calendar months from there to the month of the end date, in order; a
\* month without transactions has income 0, expense 0 and net 0
C16_CashFlowPeriods ==
    [][\A user_id \in Users, end_date \in EndDates, months \in 1..MaxMonths,
          later \in {EXPENSE, TRANSFER} :
            last'.op = "cash_flow_report" /\ CashFlowReport(user_id, end_date, months, later)
            => LET body == last'.body
               IN /\ body.start_date = FirstOfMonthBefore(end_date, months)
                  /\ Len(body.data) = months + 1
                  /\ \A k \in 1..Len(body.data) :
                        LET first == FirstOfMonthBefore(end_date, months + 1 - k)
                        IN /\ body.data[k].period = FormatPeriod(first)
                           /\ (\A type \in TransactionType : RowsOfMonth(user_id, first, type) = {})
                              => /\ body.data[k].income = 0
                                 /\ body.data[k].expense = 0
                                 /\ body.data[k].net = 0]_vars

\* C17: in a cash-flow report the running_balance of each period is the sum of net
\* over that period and the earlier ones (a period with net 0 repeats the balance of
\* the period before), and ending_balance is the running_balance of the last period
\* and equals net_cash_flow
C17_RunningBalance ==
    last.op = "cash_flow_report" /\ last.code = "200"
    => LET data == last.body.data
           totals == last.body.totals
       IN /\ \A k \in 1..Len(data) :
                /\ data[k].running_balance = SumField(SubSeq(data, 1, k), "net")
                /\ k > 1 /\ data[k].net = 0
                   => data[k].running_balance = data[k - 1].running_balance
          /\ Len(data) > 0
          /\ totals.ending_balance = data[Len(data)].running_balance
          /\ totals.ending_balance = totals.net_cash_flow

\* a report in which a month without activity carries a balance forward
C17_Witness ==
    /\ last.op = "cash_flow_report" /\ last.code = "200"
    /\ \E k \in 2..Len(last.body.data) :
        /\ last.body.data[k].net = 0
        /\ last.body.data[k].running_balance = 10000
    /\ last.body.totals.ending_balance = 9000

\* C18: in the income-expense report (by month) each period holds the sum of the user's
\* income transactions of the period as income, the sum of the expense transactions as
\* expense (a transfer counts as neither) and net = income - expense; the periods are
\* those with an income or expense transaction, in ascending order of their key; and
\* net_income = total_income - total_expense
C18_IncomeExpense ==
    [][\A user_id \in Users, end_date \in EndDates :
            /\ last'.op = "income_expense_report"
            /\ IncomeExpenseReport(user_id, ReportStart, end_date, "month")
            => LET data == last'.body.data
                   totals == last'.body.totals
                   InRange(type, period) ==
                        {r \in RowsBetween(user_id, ReportStart, end_date) :
                            r.type = type /\ FormatPeriod(r.date) = period}
               IN /\ \A k \in 1..Len(data) :
                        /\ data[k].income = SumAmounts(InRange(INCOME, data[k].period))
                        /\ data[k].expense = SumAmounts(InRange(EXPENSE, data[k].period))
                        /\ data[k].net = data[k].income - data[k].expense
                  /\ \A k \in 1..(Len(data) - 1) : StrLess(data[k].period, data[k + 1].period)
                  /\ totals.net_income = totals.total_income - totals.total_expense]_vars

\* C19: in the tax summary each bucket of income holds the sum of the income
\* transactions of the fiscal year whose category is that bucket (other_income for a
\* category that is no income bucket), each bucket of expenses the same for the expense
\* transactions, each total is the sum of its buckets, net_profit = income total -
\* expenses total and estimated_tax = 30 % of net_profit
C19_TaxSummary ==
    [][\A user_id \in Users, fiscal_year \in FiscalYears :
            last'.op = "tax_summary_report" /\ TaxSummaryReport(user_id, fiscal_year)
            => LET tax == last'.body
                   OfYear(type) ==
                        {transactions[t] : t \in {x \in DOMAIN transactions :
                            /\ transactions[x].user_id = user_id
                            /\ transactions[x].type = type
                            /\ transactions[x].date.year = fiscal_year}}
                   Sum(f) == SumAmounts({[id |-> b, amount |-> f[b]] : b \in DOMAIN f})
               IN /\ \A b \in IncomeBuckets :
                        tax.income[b] = SumAmounts({r \in OfYear(INCOME) :
                            r.category = b \/ (b = "other_income" /\ r.category \notin IncomeBuckets)})
                  /\ \A b \in ExpenseBuckets :
                        tax.expenses[b] = SumAmounts({r \in OfYear(EXPENSE) :
                            r.category = b \/ (b = "other_expense" /\ r.category \notin ExpenseBuckets)})
                  /\ tax.income_total = Sum(tax.income)
                  /\ tax.expenses_total = Sum(tax.expenses)
                  /\ tax.net_profit = tax.income_total - tax.expenses_total
                  /\ tax.estimated_tax * 100 = tax.net_profit * 30]_vars

\* C20: after calculate_totals, a second calculate_totals changes nothing: subtotal,
\* tax_amount, total, amount_due and status stay as the first call left them
C20_CalculateTotalsIdempotent ==
    [][\A i \in InvoiceIds :
            last'.op = "calculate_totals" /\ CalculateTotalsCall(i)
            => LET once == invoices'[i]
                   twice == CalculateTotals(once)
               IN /\ twice.subtotal = once.subtotal
                  /\ twice.tax_amount = once.tax_amount
                  /\ twice.total = once.total
                  /\ twice.amount_due = once.amount_due
                  /\ twice.status = once.status]_vars

\* calculate_totals has made an invoice with a part payment PARTIALLY_PAID
C20_Witness ==
    /\ last.op = "calculate_totals"
    /\ \E i \in InvoiceIds :
        /\ invoices[i].status = PARTIALLY_PAID
        /\ invoices[i].amount_paid = 5000
        /\ invoices[i].total = 29700
        /\ invoices[i].amount_due = 24700

(***************************************************************************)
(* C21: the amount of a stored item                                        *)
(***************************************************************************)

\* C21: every stored invoice item, created with its invoice, created by an update or
\* rewritten in place by an update, has amount = quantity * unit_price *
\* (1 + tax_rate / 100) of the quantity, unit_price and tax_rate it now stores
C21_ItemAmountFromFields ==
    \A row \in ItemRows :
        row.item.amount * 100 = row.item.quantity * row.item.unit_price * (100 + row.item.tax_rate)

\* an update has rewritten a taxed item in place from a body without tax_rate (the rate
\* is then 0), next to a taxed item that was created with an invoice
C21_Witness ==
    /\ last.op = "update_invoice" /\ last.code = "200"
    /\ \E row \in ItemRows :
        /\ row.item.id = 1 /\ row.item.quantity = 3
        /\ row.item.tax_rate = 0 /\ row.item.amount = 15000
    /\ \E row \in ItemRows : row.item.tax_rate = 10 /\ row.item.amount = 22000

(***************************************************************************)
(* Requests served side by side.  A worker serves a request in two steps:  *)
(* it reads the store into its session, and later it commits what it has   *)
(* built from what it read.  Nothing in the code takes a lock between the  *)
(* two, so any step of another worker may come in between.                 *)
(***************************************************************************)

\* _generate_invoice_number lines 24-26: the id of the latest invoice of the user, 0 if none
LatestInvoiceId(user_id) == IF InvoicesOf(user_id) = {} THEN 0 ELSE Max(InvoicesOf(user_id))

\* the answer of a request that was served in two steps, with the request
AnswerTo(request, op, code, message) ==
    [op |-> op, code |-> code, message |-> message, request |-> request]

\* the workers that hold a request
InFlight == {worker \in Workers : inflight[worker].kind # "idle"}

\* a request goes to the first idle worker, and it is taken in only while the bound of
\* the model leaves room for its commit
Accepts(worker) ==
    /\ inflight[worker].kind = "idle"
    /\ \A v \in Workers : v < worker => inflight[v].kind # "idle"
    /\ calls + Cardinality(InFlight) < MaxCalls

\* create_invoice up to line 130: the body is validated and the invoice number is
\* generated from the latest invoice read; nothing is written yet
CreateRead(worker, user_id, data) ==
    /\ Accepts(worker)
    /\ CreateError(data) = None
    /\ inflight' = [inflight EXCEPT ![worker] =
            [kind |-> "create_invoice",
             user_id |-> user_id,
             data |-> data,
             latest |-> LatestInvoiceId(user_id),
             read_on |-> today,
             invoice_number |-> GenerateInvoiceNumber(user_id)]]
    /\ UNCHANGED <<store, today, last, calls>>

\* create_invoice lines 132-142: the commit inserts the invoice under the number generated
\* at the read; a number that is stored by now makes the commit fail, the session is
\* rolled back and the request ends with an error
CreateCommit(worker) ==
    /\ inflight[worker].kind = "create_invoice"
    /\ LET request == inflight[worker]
           invoice == [NewInvoice(request.user_id, request.data, next_invoice_id)
                          EXCEPT !.invoice_number = request.invoice_number]
       IN IF NumberTaken(request.invoice_number)
          THEN /\ last' = AnswerTo(request, "create_invoice", "500", "Failed to create invoice")
               /\ UNCHANGED <<invoices, next_invoice_id, next_item_id>>
          ELSE /\ invoices' = invoices @@ (invoice.id :> invoice)
               /\ next_invoice_id' = next_invoice_id + 1
               /\ next_item_id' = next_item_id + Len(request.data.items)
               /\ last' = AnswerTo(request, "create_invoice", "201", "Invoice created successfully")
    /\ inflight' = [inflight EXCEPT ![worker] = Idle]
    /\ UNCHANGED <<transactions, next_transaction_id, today>>
    /\ Budget

\* record_payment lines 270-276: the invoice is loaded into the session and the amount is
\* checked against the row as loaded
PaymentRead(worker, invoice_id, amount) ==
    /\ Accepts(worker)
    /\ invoice_id \in InvoiceIds
    /\ PaymentError(invoices[invoice_id], amount) = None
    /\ inflight' = [inflight EXCEPT ![worker] =
            [kind |-> "record_payment", invoice |-> invoices[invoice_id], amount |-> amount]]
    /\ UNCHANGED <<store, today, last, calls>>

\* a commit that takes the row as it is stored now, as under a lock held since the read
PaymentCommitLocked(worker) ==
    /\ inflight[worker].kind = "record_payment"
    /\ LET request == inflight[worker]
           invoice == invoices[request.invoice.id]
       IN /\ CommitPayment(invoice, request.amount, invoice.user_id)
          /\ last' = AnswerTo(request, "service_record_payment", "return", "")
    /\ inflight' = [inflight EXCEPT ![worker] = Idle]
    /\ UNCHANGED <<next_invoice_id, next_item_id, today>>
    /\ Budget

\* record_payment lines 278-297: amount_paid += amount and calculate_totals() act on the
\* row as loaded, and the commit writes the values so computed and inserts the transaction
PaymentCommit(worker) ==
    /\ inflight[worker].kind = "record_payment"
    /\ LET request == inflight[worker]
       IN /\ CommitPayment(request.invoice, request.amount, request.invoice.user_id)
          /\ last' = AnswerTo(request, "service_record_payment", "return", "")
    /\ inflight' = [inflight EXCEPT ![worker] = Idle]
    /\ UNCHANGED <<next_invoice_id, next_item_id, today>>
    /\ Budget

\* the requests that come in side by side
ConcurrentCreates == {data \in CreateRequests : "project_id" \in DOMAIN data}

ConcurrentAmounts == {a \in Amounts : a > 0}

ConcurrentNext ==
    \/ \E worker \in Workers, user_id \in Users, data \in ConcurrentCreates :
            CreateRead(worker, user_id, data)
    \/ \E worker \in Workers : CreateCommit(worker)
    \/ \E worker \in Workers, invoice_id \in InvoiceIds, amount \in ConcurrentAmounts :
            PaymentRead(worker, invoice_id, amount)
    \/ \E worker \in Workers : PaymentCommit(worker)
    \/ NextMonth

ConcurrentSpec == Init /\ [][ConcurrentNext]_vars

(***************************************************************************)
(* C22, C23: requests that interleave                                      *)
(***************************************************************************)

\* C22: two create_invoice requests of one user that read the same latest invoice in the
\* same month hold the same invoice number; no two stored invoices share a number; and
\* the commit of a request whose number is stored by now answers 500, stores no invoice
\* and no item, and ends the request (no worker takes it up again), while a commit
\* whose number is free stores exactly that one invoice
C22_RacingCreates ==
    /\ [](\A v, w \in Workers :
            /\ inflight[v].kind = "create_invoice" /\ inflight[w].kind = "create_invoice"
            /\ inflight[v].user_id = inflight[w].user_id
            /\ inflight[v].latest = inflight[w].latest
            /\ inflight[v].read_on = inflight[w].read_on
            => inflight[v].invoice_number = inflight[w].invoice_number)
    /\ [](\A i, j \in InvoiceIds :
            i # j => invoices[i].invoice_number # invoices[j].invoice_number)
    /\ [][\A w \in Workers :
            /\ inflight[w].kind = "create_invoice"
            /\ inflight'[w] # inflight[w]
            => /\ inflight'[w] = Idle
               /\ \A v \in Workers \ {w} : inflight'[v] = inflight[v]
               /\ IF NumberTaken(inflight[w].invoice_number)
                  THEN /\ last'.code = "500"
                       /\ invoices' = invoices
                       /\ ItemRows' = ItemRows
                  ELSE /\ last'.code = "201"
                       /\ Cardinality(InvoiceIds') = Cardinality(InvoiceIds) + 1
                       /\ \E i \in InvoiceIds' \ InvoiceIds :
                            /\ invoices'[i].invoice_number = inflight[w].invoice_number
                            /\ invoices'[i].user_id = inflight[w].user_id
                       /\ \A i \in InvoiceIds : invoices'[i] = invoices[i]]_vars

\* a request that had read no invoice of its user has failed at its commit, because the
\* one invoice of that user, stored in between, holds the number it had generated
C22_Witness ==
    /\ last.op = "create_invoice" /\ last.code = "500"
    /\ "request" \in DOMAIN last
    /\ last.request.latest = 0
    /\ Cardinality(InvoiceIds) = 1
    /\ \A i \in InvoiceIds :
        /\ invoices[i].user_id = last.request.user_id
        /\ invoices[i].invoice_number = last.request.invoice_number
        /\ invoices[i].created_at = last.request.read_on

\* the amounts of the stored transactions linked to an invoice, summed
RECURSIVE SumOfTransactions(_)
SumOfTransactions(ids) ==
    IF ids = {} THEN 0
    ELSE LET t == CHOOSE x \in ids : TRUE
         IN transactions[t].amount + SumOfTransactions(ids \ {t})

LinkedTransactions(invoice_id) == {t \in DOMAIN transactions : transactions[t].invoice_id = invoice_id}

\* C23: a payment in flight on an invoice keeps no other worker from reading the same
\* invoice for a payment that passes the checks on the stored row; and the commit of a
\* payment stores the transaction and writes amount_paid = (amount_paid as read) +
\* amount and amount_due = total - amount_paid from the row as read, whatever has been
\* committed to that row since the read
C23_UnlockedPayments ==
    /\ [](\A v, w \in Workers, amount \in ConcurrentAmounts :
            /\ inflight[v].kind = "record_payment"
            /\ Accepts(w)
            /\ inflight[v].invoice.id \in InvoiceIds
            /\ PaymentError(invoices[inflight[v].invoice.id], amount) = None
            => ENABLED PaymentRead(w, inflight[v].invoice.id, amount))
    /\ [][\A w \in Workers :
            /\ inflight[w].kind = "record_payment"
            /\ inflight'[w] # inflight[w]
            => LET request == inflight[w]
                   i == request.invoice.id
               IN /\ invoices'[i].amount_paid = request.invoice.amount_paid + request.amount
                  /\ invoices'[i].amount_due = request.invoice.total - invoices'[i].amount_paid
                  /\ \E t \in DOMAIN transactions' \ DOMAIN transactions :
                        /\ DOMAIN transactions' = DOMAIN transactions \cup {t}
                        /\ transactions'[t].amount = request.amount
                        /\ transactions'[t].invoice_id = i
                  /\ \A t \in DOMAIN transactions : transactions'[t] = transactions[t]]_vars

\* two payments that each passed amount <= amount_due on the row they read are both
\* stored as transactions, and amount_paid holds only one of them
C23_Witness ==
    /\ last.op = "service_record_payment" /\ "request" \in DOMAIN last
    /\ last.request.invoice.amount_paid = 0
    /\ LET i == last.request.invoice.id
       IN /\ Cardinality(LinkedTransactions(i)) = 2
          /\ SumOfTransactions(LinkedTransactions(i)) = 54000
          /\ invoices[i].amount_paid = 27000
          /\ invoices[i].total = 29700

(***************************************************************************)
(* C24: the status state machine                                           *)
(***************************************************************************)
StatusEdges ==
    {<<DRAFT, SENT>>}
    \cup ({SENT} \X {VIEWED, PARTIALLY_PAID, PAID})
    \cup ({VIEWED, PARTIALLY_PAID, PAID} \X {VOID, UNCOLLECTIBLE})
    \cup ({DRAFT, SENT} \X {OVERDUE})
    \cup ({DRAFT, SENT} \X {VOID})

\* C24: whenever a call changes the status of a stored invoice, the old and the new
\* status are an edge of the state machine DRAFT -> SENT -> {VIEWED, PARTIALLY_PAID,
\* PAID} -> {VOID, UNCOLLECTIBLE}, DRAFT/SENT -> OVERDUE, DRAFT/SENT -> VOID; in
\* particular no call moves an invoice from PAID, VOID or UNCOLLECTIBLE to DRAFT or SENT
C24_StatusEdgesOnly ==
    [][\A i \in InvoiceIds :
            i \in InvoiceIds' /\ invoices'[i].status # invoices[i].status
            => /\ <<invoices[i].status, invoices'[i].status>> \in StatusEdges
               /\ ~(/\ invoices[i].status \in {PAID, VOID, UNCOLLECTIBLE}
                    /\ invoices'[i].status \in {DRAFT, SENT})]_vars

(***************************************************************************)
(* C25: the status after calculate_totals                                  *)
(***************************************************************************)

\* the status the claim gives an invoice whose status was `before` when calculate_totals
\* was called
StatusRule(before, invoice) ==
    IF invoice.amount_due <= 0 THEN PAID
    ELSE IF invoice.amount_paid > 0 THEN PARTIALLY_PAID
    ELSE before

\* C25: after every call that ends with calculate_totals (create, update, both payment
\* paths) the status is PAID when amount_due <= 0, else PARTIALLY_PAID when
\* amount_paid > 0, else the status the invoice had when calculate_totals was called;
\* a recorded payment of exactly the amount due leaves PAID with amount_due 0, a
\* smaller positive one leaves PARTIALLY_PAID
C25_StatusFollowsPayments ==
    [][/\ \A i \in InvoiceIds, a \in Amounts :
            PaymentStep(i, a) /\ Succeeded(last')
            => /\ invoices'[i].status = StatusRule(invoices[i].status, invoices'[i])
               /\ a = invoices[i].amount_due
                    => invoices'[i].status = PAID /\ invoices'[i].amount_due = 0
               /\ 0 < a /\ a < invoices[i].amount_due
                    => invoices'[i].status = PARTIALLY_PAID
       /\ \A user_id \in Users, i \in InvoiceIds, data \in UpdateRequests :
            /\ last'.op = "update_invoice" /\ last'.code = "200"
            /\ UpdateInvoice(user_id, i, data)
            => invoices'[i].status
                    = StatusRule(Get(data, "status", invoices[i].status), invoices'[i])
       /\ last'.op = "create_invoice" /\ last'.code = "201"
            => \A i \in InvoiceIds' \ InvoiceIds :
                    invoices'[i].status = StatusRule(DRAFT, invoices'[i])]_vars

\* a payment of exactly the amount due has left an invoice PAID with nothing due
C25_Witness ==
    /\ last.op \in {"record_payment", "service_record_payment"} /\ Succeeded(last)
    /\ \E i \in InvoiceIds :
        /\ invoices[i].status = PAID
        /\ invoices[i].total = 27000
        /\ invoices[i].amount_paid = 27000
        /\ invoices[i].amount_due = 0
        /\ Cardinality(LinkedTransactions(i)) = 1

(***************************************************************************)
(* GET /health (app/routes/health.py) on the application of create_app     *)
(***************************************************************************)

\* create_app lines 28-32: the blueprints the application is given
RegisteredBlueprints == {"auth", "transactions", "invoices", "reports"}

\* health_check: the try branch when db.session.execute('SELECT 1') returns, the except
\* branch when it raises
HealthAnswer(probe_answers) ==
    IF probe_answers
    THEN [op |-> "health", code |-> "200",
          body |-> [status |-> "healthy", database |-> "connected"]]
    ELSE [op |-> "health", code |-> "500",
          body |-> [status |-> "unhealthy", database |-> "disconnected"]]

\* GET /health: a path of no registered blueprint is answered 404 by the application
HealthCheck(probe_answers) ==
    /\ last' = IF "health" \in RegisteredBlueprints
               THEN HealthAnswer(probe_answers)
               ELSE [op |-> "health", code |-> "404", body |-> [message |-> "Not Found"]]
    /\ UNCHANGED <<store, today, calls, inflight>>

HealthNext ==
    \/ \E user_id \in Users, data \in CreateRequests : CreateInvoice(user_id, data)
    \/ \E probe_answers \in BOOLEAN : HealthCheck(probe_answers)

HealthSpec == Init /\ [][HealthNext]_vars

\* C26: GET /health answers 200 with {status: healthy, database: connected} when the
\* store answers the probe query, 500 with status unhealthy and database disconnected
\* when the probe query fails, and it changes no stored data
C26_HealthProbe ==
    [][\A probe_answers \in BOOLEAN :
            last'.op = "health" /\ HealthCheck(probe_answers)
            => /\ store' = store
               /\ probe_answers
                    => /\ last'.code = "200"
                       /\ last'.body = [status |-> "healthy", database |-> "connected"]
               /\ ~probe_answers
                    => /\ last'.code = "500"
                       /\ last'.body.status = "unhealthy"
                       /\ last'.body.database = "disconnected"]_vars

(***************************************************************************)
(* C27: amount_paid against the linked transactions                        *)
(***************************************************************************)
LedgerConsistent ==
    \A i \in InvoiceIds : invoices[i].amount_paid = SumOfTransactions(LinkedTransactions(i))

\* C27: every record_payment, transaction update and transaction delete that starts with
\* each invoice's amount_paid equal to the sum of the amounts of the stored
\* transactions linked to it ends with them equal again
C27_LedgerConsistency ==
    [][/\ last'.op \in {"record_payment", "service_record_payment",
                        "update_transaction", "delete_transaction"}
       /\ LedgerConsistent
       => LedgerConsistent']_vars

(***************************************************************************)
(* C28, C29: what is paid against the total and the status                 *)
(***************************************************************************)

\* C28: every stored invoice has 0 <= amount_paid <= total, so that its amount_due is
\* never negative
C28_PaidWithinTotal ==
    \A i \in InvoiceIds :
        /\ 0 <= invoices[i].amount_paid
        /\ invoices[i].amount_paid <= invoices[i].total
        /\ invoices[i].amount_due >= 0

\* C29: every stored invoice with amount_paid > 0 has status PARTIALLY_PAID or PAID
C29_PaidHasPaidStatus ==
    \A i \in InvoiceIds :
        invoices[i].amount_paid > 0 => invoices[i].status \in {PARTIALLY_PAID, PAID}

(***************************************************************************)
(* C30: the two dates of an invoice under create and update                *)
(***************************************************************************)

\* bodies of PUT /api/invoices/<id> that carry issue_date only, due_date only, or both
DateUpdates ==
    {[issue_date |-> 3],
     [issue_date |-> 0],
     [due_date |-> 4],
     [due_date |-> 0],
     [issue_date |-> 2, due_date |-> 3],
     [issue_date |-> 3, due_date |-> 2]}

DatesNext ==
    \/ \E user_id \in Users, data \in CreateRequests : CreateInvoice(user_id, data)
    \/ \E user_id \in Users, invoice_id \in InvoiceKeys :
            \E data \in BodiesFor(user_id, invoice_id, DateUpdates) :
                UpdateInvoice(user_id, invoice_id, data)

DatesSpec == Init /\ [][DatesNext]_vars

\* C30: every stored invoice has issue_date <= due_date
C30_IssueBeforeDue ==
    \A i \in InvoiceIds : invoices[i].issue_date <= invoices[i].due_date

====
